---- MODULE Spec2Model ----
(***************************************************************************)
(* A model of command_gen/utils/InferenceProfile.py: the resource          *)
(* resolver (file_sanity_check, get_full_resource_path), the profile       *)
(* store (load_profile, save_profile) and the InferenceProfile object      *)
(* (construction with _load_files, request shaping, mutators), of          *)
(* save_profile run step by step by two callers, and of the batch loop of  *)
(* command_gen/generate.py.                                                *)
(*                                                                         *)
(* Strings the code builds by formatting are kept structured: a file name  *)
(* f"{stem}.{ext}" is a record of the stem (a sequence of tokens that the  *)
(* code joins with "_") and the extension, and os.path.join keeps the      *)
(* base directory next to the relative name.                               *)
(***************************************************************************)
EXTENDS Integers, Sequences, FiniteSets, TLC

VARIABLES
    env,       \* os.environ restricted to the four directory variables
    dirs,      \* the directories that exist
    fs,        \* the regular files that exist: path -> File
    profiles,  \* the InferenceProfile objects constructed so far
    dicts,     \* the dict objects profiles refer to; dicts[1] is the default
               \* argument {} of __init__, created once at definition time
    messages,  \* the caller's message list handed to format_messages_chat
    last,      \* the last call made: its arguments and what it returned or raised
    writers,   \* the save_profile calls in progress: each caller's locals and position
    batch      \* the dataset generator's batch loop: its locals and position

vars == <<env, dirs, fs, profiles, dicts, messages, last, writers, batch>>

(***************************************************************************)
(* Bounds of the model.                                                    *)
(***************************************************************************)
\* how many resources (environment variables, directories, files) of a world
\* may differ from the fully provisioned installation
MaxFaults == 2
\* how many InferenceProfile objects a run constructs
MaxProfiles == 2
\* how many files the profiles directory comes to hold
MaxProfileFiles == 3
\* how many messages a caller's list holds before formatting
MaxMessages == 2

(***************************************************************************)
(* The process environment and the filesystem.                             *)
(***************************************************************************)
EnvVars == {"PROFILES_DIR", "MODEL_CONFIG_DIR", "SYSTEM_PROMPTS_DIR", "TOOL_DEFINITIONS_DIR"}

\* os.getenv gives None for a variable that is not set
NONE == "<None>"

\* the directory each variable names when it is set to one
DirOf(v) ==
    CASE v = "PROFILES_DIR" -> "/profiles"
      [] v = "MODEL_CONFIG_DIR" -> "/model_config"
      [] v = "SYSTEM_PROMPTS_DIR" -> "/system_prompts"
      [] v = "TOOL_DEFINITIONS_DIR" -> "/tool_definitions"

\* a variable is unset, set to the empty string, or set to its directory
EnvValues(v) == {NONE, "", DirOf(v)}

\* f"{stem}.{ext}"
FileName(stem, ext) == [sub |-> "", stem |-> stem, ext |-> ext]

\* os.path.join(folder, f"{stem}.{ext}")
InFolder(folder, stem, ext) == [sub |-> folder, stem |-> stem, ext |-> ext]

\* os.path.join(base, resource_name)
Join(base, name) == [dir |-> base, name |-> name]

\* file contents: plain text (not JSON), or the text json.dump writes for a value
Text(s) == [kind |-> "text", id |-> s]
NoData == Text("")

\* json.dump(value, file): the bytes written
JsonDump(value) == [kind |-> "json", value |-> value]

\* json.load(file) raises JSONDecodeError unless the bytes are JSON
JsonValid(data) == data.kind = "json"

\* json.load(file) on valid JSON: the value json.dump was given
JsonLoad(data) == data.value

\* a JSON object (a tool definition, a tokenizer configuration), by identity
Dict(id) == [kind |-> "dict", id |-> id]

\* a Python str value held in a list that may also hold dicts
Str(s) == [kind |-> "str", id |-> s]

\* f"{value}" as the tokens of a file-name stem: a str is itself, a dict is its repr
Format(value) == IF value.kind = "str" THEN <<value.id>> ELSE <<"{", value.id, "}">>

\* a file the filesystem holds: its read permission and its bytes
File(readable, data) == [readable |-> readable, data |-> data]

\* os.path.isfile / os.path.exists on a path of the model
Exists(path) == path \in DOMAIN fs

\* os.access(path, os.R_OK) on an existing file
Readable(path) == fs[path].readable

\* os.path.getsize on an existing file
\* (kept as zero / non-zero: the code only ever compares it with 0)
GetSize(path) == IF fs[path].data = NoData THEN 0 ELSE 1

(***************************************************************************)
(* Exceptions: the class raised, and the class hierarchy of Python.        *)
(***************************************************************************)
Ok == "ok"

\* EnvironmentError is an alias of OSError
Canonical(cls) == IF cls = "EnvironmentError" THEN "OSError" ELSE cls

Parent(cls) ==
    CASE cls = "FileNotFoundError" -> "OSError"
      [] cls = "PermissionError" -> "OSError"
      [] cls = "JSONDecodeError" -> "ValueError"
      [] OTHER -> "Exception"

\* issubclass(a, b)
IsSubclass(a, b) ==
    LET ca == Canonical(a)
        cb == Canonical(b)
    IN  \/ ca = cb
        \/ cb = "Exception"
        \/ Parent(ca) = cb

\* two error kinds a handler can tell apart in both directions
Distinguishable(a, b) == ~IsSubclass(a, b) /\ ~IsSubclass(b, a)

(***************************************************************************)
(* file_sanity_check: the outcome and the filesystem calls made.           *)
(***************************************************************************)
\* a variant that forgets the size test
file_sanity_check_NoSizeCheck(full_file_path) ==
    IF ~Exists(full_file_path)
    THEN [err |-> "FileNotFoundError", probes |-> <<"isfile">>]
    ELSE IF ~Readable(full_file_path)
    THEN [err |-> "PermissionError", probes |-> <<"isfile", "access">>]
    ELSE [err |-> Ok, probes |-> <<"isfile", "access">>]

file_sanity_check(full_file_path) ==
    IF ~Exists(full_file_path)
    THEN [err |-> "FileNotFoundError", probes |-> <<"isfile">>]
    ELSE IF ~Readable(full_file_path)
    THEN [err |-> "PermissionError", probes |-> <<"isfile", "access">>]
    ELSE IF GetSize(full_file_path) = 0
    THEN [err |-> "ValueError", probes |-> <<"isfile", "access", "getsize">>]
    ELSE [err |-> Ok, probes |-> <<"isfile", "access", "getsize">>]

(***************************************************************************)
(* get_full_resource_path: the path on success, the error otherwise.       *)
(***************************************************************************)
NoPath == Join(NONE, FileName(<<>>, ""))

\* a variant that checks the file before it tests the variable
get_full_resource_path_CheckFirst(env_variable, resource_name) ==
    LET env_value == env[env_variable]
        resource_path == Join(env_value, resource_name)
        check == file_sanity_check(resource_path)
    IN  IF check.err # Ok
        THEN [err |-> check.err, path |-> NoPath, probes |-> check.probes]
        ELSE IF env_value = NONE
        THEN [err |-> "EnvironmentError", path |-> NoPath, probes |-> check.probes]
        ELSE [err |-> Ok, path |-> resource_path, probes |-> check.probes]

get_full_resource_path(env_variable, resource_name) ==
    LET env_value == env[env_variable]
        resource_path == Join(env_value, resource_name)
        check == file_sanity_check(resource_path)
    IN  IF env_value = NONE
        THEN [err |-> "EnvironmentError", path |-> NoPath, probes |-> <<>>]
        ELSE [err |-> check.err,
              path |-> IF check.err = Ok THEN resource_path ELSE NoPath,
              probes |-> check.probes]

(***************************************************************************)
(* InferenceProfile: the object, __init__ and _load_files.                 *)
(***************************************************************************)
\* the dict object that is the default value of optional_hyper_parameters
DefaultDict == 1

\* a dict with no keys
EmptyDict == [k \in {} |-> ""]

\* dict.update: d with every key of other set to other's value
Update(d, other) ==
    [k \in DOMAIN d \cup DOMAIN other |-> IF k \in DOMAIN other THEN other[k] ELSE d[k]]

\* the attributes __init__ stores before it calls _load_files; the attributes
\* _load_files may set (_tokenizer, _tokenizer_config, _system_prompt) are absent
NewProfile(a, ohp_ref) ==
    [engine_name |-> a.engine_name,
     base_url |-> a.base_url,
     model_id |-> a.model_id,
     config_folder_name |-> a.config_folder_name,
     system_prompt_file |-> a.system_prompt_file,
     tools |-> a.tools,
     optional_hyper_parameters |-> ohp_ref,
     api_key |-> a.api_key,
     load_tokenizer_flag |-> a.load_tokenizer_flag,
     has_tokenizer |-> FALSE,
     has_tokenizer_config |-> FALSE,
     tokenizer_config |-> Dict(""),
     has_system_prompt |-> FALSE,
     system_prompt |-> ""]

\* the first index of a sequence of resolver results that is an error, 0 if none
FirstError(results) ==
    IF \E i \in DOMAIN results : results[i].err # Ok
    THEN CHOOSE i \in DOMAIN results :
            /\ results[i].err # Ok
            /\ \A j \in DOMAIN results : results[j].err # Ok => i <= j
    ELSE 0

\* the two lookups under MODEL_CONFIG_DIR, in the order _load_files makes them
tokenizer_config_lookup(self) ==
    get_full_resource_path("MODEL_CONFIG_DIR",
        InFolder(self.config_folder_name, <<"tokenizer", "config">>, "json"))

tokenizer_lookup(self) ==
    get_full_resource_path("MODEL_CONFIG_DIR",
        InFolder(self.config_folder_name, <<"tokenizer">>, "json"))

system_prompt_lookup(self) ==
    get_full_resource_path("SYSTEM_PROMPTS_DIR", FileName(<<self.system_prompt_file>>, "txt"))

\* a variant that resolves the tools in reverse order
tool_lookups_Reversed(self) ==
    [i \in 1..Len(self.tools) |->
        get_full_resource_path("TOOL_DEFINITIONS_DIR",
            FileName(Format(self.tools[Len(self.tools) + 1 - i]), "json"))]

tool_lookups(self) ==
    [i \in 1..Len(self.tools) |->
        get_full_resource_path("TOOL_DEFINITIONS_DIR", FileName(Format(self.tools[i]), "json"))]

\* a variant that treats a missing prompt file like an empty system_prompt_file
load_files_TolerantPrompt(self) ==
    LET cfg == tokenizer_config_lookup(self)
        tok == tokenizer_lookup(self)
        wantPrompt == self.system_prompt_file # ""
        sp == system_prompt_lookup(self)
        wantTools == self.tools # <<>>
        tls == tool_lookups(self)
        bad == FirstError(tls)
        one == <<"MODEL_CONFIG_DIR">>
        two == <<"MODEL_CONFIG_DIR", "MODEL_CONFIG_DIR">>
        three == IF wantPrompt THEN Append(two, "SYSTEM_PROMPTS_DIR") ELSE two
        all == three \o [i \in 1..Len(self.tools) |-> "TOOL_DEFINITIONS_DIR"]
        Raise(e, looked) == [err |-> e, obj |-> self, lookups |-> looked]
    IN  IF cfg.err # Ok THEN Raise(cfg.err, one)
        ELSE IF tok.err # Ok THEN Raise(tok.err, two)
        ELSE IF wantPrompt /\ sp.err \notin {Ok, "FileNotFoundError"} THEN Raise(sp.err, three)
        ELSE IF wantTools /\ bad # 0
        THEN Raise(tls[bad].err, three \o [i \in 1..bad |-> "TOOL_DEFINITIONS_DIR"])
        \* AutoTokenizer.from_pretrained (an external library) is taken to load
        \* a tokenizer.json that is JSON and to raise on one that is not;
        \* json.load raises on bytes that are not JSON
        ELSE IF Exists(tok.path) /\ self.load_tokenizer_flag /\ ~JsonValid(fs[tok.path].data)
        THEN Raise("TokenizerError", all)
        ELSE IF Exists(cfg.path) /\ ~JsonValid(fs[cfg.path].data)
        THEN Raise("JSONDecodeError", all)
        ELSE IF wantTools /\ \E i \in DOMAIN tls : ~JsonValid(fs[tls[i].path].data)
        THEN Raise("JSONDecodeError", all)
        ELSE [err |-> Ok,
              obj |-> [self EXCEPT
                  !.has_tokenizer = Exists(tok.path) /\ self.load_tokenizer_flag,
                  !.has_tokenizer_config = Exists(cfg.path),
                  !.tokenizer_config = IF Exists(cfg.path) THEN JsonLoad(fs[cfg.path].data) ELSE @,
                  !.has_system_prompt = wantPrompt /\ sp.err = Ok,
                  !.system_prompt = IF wantPrompt /\ sp.err = Ok THEN fs[sp.path].data.id ELSE @,
                  !.tools = IF wantTools
                            THEN [i \in 1..Len(self.tools) |-> JsonLoad(fs[tls[i].path].data)]
                            ELSE @],
              lookups |-> all]

\* _load_files: the error raised (Ok if none), the object as it leaves it, and
\* the environment variables get_full_resource_path was called with, in order
load_files(self) ==
    LET cfg == tokenizer_config_lookup(self)
        tok == tokenizer_lookup(self)
        wantPrompt == self.system_prompt_file # ""
        sp == system_prompt_lookup(self)
        wantTools == self.tools # <<>>
        tls == tool_lookups(self)
        bad == FirstError(tls)
        one == <<"MODEL_CONFIG_DIR">>
        two == <<"MODEL_CONFIG_DIR", "MODEL_CONFIG_DIR">>
        three == IF wantPrompt THEN Append(two, "SYSTEM_PROMPTS_DIR") ELSE two
        all == three \o [i \in 1..Len(self.tools) |-> "TOOL_DEFINITIONS_DIR"]
        Raise(e, looked) == [err |-> e, obj |-> self, lookups |-> looked]
    IN  IF cfg.err # Ok THEN Raise(cfg.err, one)
        ELSE IF tok.err # Ok THEN Raise(tok.err, two)
        ELSE IF wantPrompt /\ sp.err # Ok THEN Raise(sp.err, three)
        ELSE IF wantTools /\ bad # 0
        THEN Raise(tls[bad].err, three \o [i \in 1..bad |-> "TOOL_DEFINITIONS_DIR"])
        \* AutoTokenizer.from_pretrained (an external library) is taken to load
        \* a tokenizer.json that is JSON and to raise on one that is not;
        \* json.load raises on bytes that are not JSON
        ELSE IF Exists(tok.path) /\ self.load_tokenizer_flag /\ ~JsonValid(fs[tok.path].data)
        THEN Raise("TokenizerError", all)
        ELSE IF Exists(cfg.path) /\ ~JsonValid(fs[cfg.path].data)
        THEN Raise("JSONDecodeError", all)
        ELSE IF wantTools /\ \E i \in DOMAIN tls : ~JsonValid(fs[tls[i].path].data)
        THEN Raise("JSONDecodeError", all)
        ELSE [err |-> Ok,
              obj |-> [self EXCEPT
                  !.has_tokenizer = Exists(tok.path) /\ self.load_tokenizer_flag,
                  !.has_tokenizer_config = Exists(cfg.path),
                  !.tokenizer_config = IF Exists(cfg.path) THEN JsonLoad(fs[cfg.path].data) ELSE @,
                  !.has_system_prompt = wantPrompt,
                  !.system_prompt = IF wantPrompt THEN fs[sp.path].data.id ELSE @,
                  !.tools = IF wantTools
                            THEN [i \in 1..Len(self.tools) |-> JsonLoad(fs[tls[i].path].data)]
                            ELSE @],
              lookups |-> all]

\* a variant that demands every directory variable when a profile is constructed
init_AllAtStart(a, ohp_given) ==
    LET ref == IF ohp_given THEN Len(dicts) + 1 ELSE DefaultDict
        loaded == load_files(NewProfile(a, ref))
    IN  IF \E v \in EnvVars : env[v] = NONE
        THEN [err |-> "EnvironmentError", obj |-> NewProfile(a, ref),
              lookups |-> <<>>, dicts |-> dicts]
        ELSE [err |-> loaded.err,
              obj |-> loaded.obj,
              lookups |-> loaded.lookups,
              dicts |-> IF ohp_given /\ loaded.err = Ok
                        THEN Append(dicts, a.optional_hyper_parameters)
                        ELSE dicts]

\* InferenceProfile(**a): ohp_given says whether optional_hyper_parameters was
\* passed (a new dict object) or left to its default (the shared dict object)
init(a, ohp_given) ==
    LET ref == IF ohp_given THEN Len(dicts) + 1 ELSE DefaultDict
        loaded == load_files(NewProfile(a, ref))
    IN  [err |-> loaded.err,
         obj |-> loaded.obj,
         lookups |-> loaded.lookups,
         dicts |-> IF ohp_given /\ loaded.err = Ok
                   THEN Append(dicts, a.optional_hyper_parameters)
                   ELSE dicts]

(***************************************************************************)
(* The profile store: _to_dict, save_profile, load_profile.                *)
(***************************************************************************)
to_dict(self) ==
    [engine_name |-> self.engine_name,
     base_url |-> self.base_url,
     model_id |-> self.model_id,
     config_folder_name |-> self.config_folder_name,
     api_key |-> self.api_key,
     system_prompt_file |-> self.system_prompt_file,
     tools |-> self.tools,
     optional_hyper_parameters |-> dicts[self.optional_hyper_parameters],
     load_tokenizer_flag |-> self.load_tokenizer_flag]

\* str(counter)
Decimal(n) ==
    CASE n = 1 -> "1" [] n = 2 -> "2" [] n = 3 -> "3" [] n = 4 -> "4" [] n = 5 -> "5"
      [] n = 6 -> "6" [] n = 7 -> "7" [] n = 8 -> "8" [] n = 9 -> "9"

\* os.path.join(profiles_dir, f"{unique_profile_name}.json")
profile_path(profiles_dir, unique_profile_name) ==
    Join(profiles_dir, FileName(unique_profile_name, "json"))

\* a variant that never probes: the requested name is used as it is
unique_name_NoProbe(profiles_dir, profile_name, unique_profile_name, counter) ==
    unique_profile_name

\* the while loop of save_profile: the first name of profile_name,
\* profile_name_1, profile_name_2, ... whose path does not exist
RECURSIVE unique_name(_, _, _, _)
unique_name(profiles_dir, profile_name, unique_profile_name, counter) ==
    IF Exists(profile_path(profiles_dir, unique_profile_name))
    THEN unique_name(profiles_dir, profile_name,
                     Append(profile_name, Decimal(counter)), counter + 1)
    ELSE unique_profile_name

\* open(file_path, "w") and json.dump: the file is created or truncated
write_json(file_path, value) ==
    [p \in DOMAIN fs \cup {file_path} |->
        IF p = file_path THEN File(TRUE, JsonDump(value)) ELSE fs[p]]

\* a variant that does not create the profiles directory
save_profile_NoMakedirs(self, profile_name) ==
    LET profiles_dir == env["PROFILES_DIR"]
        unique_profile_name == unique_name(profiles_dir, profile_name, profile_name, 1)
        file_path == profile_path(profiles_dir, unique_profile_name)
    IN  IF profiles_dir = NONE \/ profiles_dir = ""
        THEN [err |-> "EnvironmentError", path |-> NoPath, dirs |-> dirs, fs |-> fs]
        ELSE IF profiles_dir \notin dirs
        THEN [err |-> "FileNotFoundError", path |-> NoPath, dirs |-> dirs, fs |-> fs]
        ELSE [err |-> Ok,
              path |-> file_path,
              dirs |-> dirs,
              fs |-> write_json(file_path, to_dict(self))]
\* save_profile: the error raised (Ok if none), the path written, and the
\* directories and files afterwards
save_profile(self, profile_name) ==
    LET profiles_dir == env["PROFILES_DIR"]
        unique_profile_name == unique_name(profiles_dir, profile_name, profile_name, 1)
        file_path == profile_path(profiles_dir, unique_profile_name)
    IN  IF profiles_dir = NONE \/ profiles_dir = ""
        THEN [err |-> "EnvironmentError", path |-> NoPath, dirs |-> dirs, fs |-> fs]
        ELSE [err |-> Ok,
              path |-> file_path,
              dirs |-> dirs \cup {profiles_dir},
              fs |-> write_json(file_path, to_dict(self))]

\* load_profile: resolve, parse, construct
load_profile(profile_name) ==
    LET found == get_full_resource_path("PROFILES_DIR", FileName(profile_name, "json"))
    IN  IF found.err # Ok THEN [err |-> found.err, lookups |-> <<"PROFILES_DIR">>, dicts |-> dicts]
        ELSE IF ~JsonValid(fs[found.path].data)
        THEN [err |-> "JSONDecodeError", lookups |-> <<"PROFILES_DIR">>, dicts |-> dicts]
        ELSE LET made == init(JsonLoad(fs[found.path].data), TRUE)
             IN  [made EXCEPT !.lookups = <<"PROFILES_DIR">> \o @]

(***************************************************************************)
(* Request shaping and the mutators.                                       *)
(***************************************************************************)
\* a variant that sets "model" after the hyperparameters
format_inference_params_ModelLast(self) ==
    Update(dicts[self.optional_hyper_parameters], [k \in {"model"} |-> self.model_id])

format_inference_params(self) ==
    Update([k \in {"model"} |-> self.model_id], dicts[self.optional_hyper_parameters])

\* the tokenizer is an external library: a text is the sequence of its tokens
token_count(text) == Len(text)

\* a variant that looks for the tokenizer instead of testing the flag
get_token_count_ByAttribute(self, text) ==
    IF ~self.has_tokenizer
    THEN [err |-> "AttributeError", count |-> 0]
    ELSE [err |-> Ok, count |-> token_count(text)]

get_token_count(self, text) ==
    IF ~self.load_tokenizer_flag
    THEN [err |-> "ValueError", count |-> 0]
    ELSE IF ~self.has_tokenizer
    THEN [err |-> "AttributeError", count |-> 0]
    ELSE [err |-> Ok, count |-> token_count(text)]

\* a variant that replaces the hyperparameters by params
set_optional_param_Replace(self, params) ==
    [dicts EXCEPT ![self.optional_hyper_parameters] = params]
\* set_optional_param updates the dict object the profile refers to, in place
set_optional_param(self, params) ==
    [dicts EXCEPT ![self.optional_hyper_parameters] = Update(@, params)]

set_api_key(self, api_key) == [self EXCEPT !.api_key = api_key]

Message(role, content) == [role |-> role, content |-> content]

\* a variant that appends the system message instead of inserting it first
format_messages_chat_Append(self, msgs) ==
    IF msgs = <<>>
    THEN [err |-> "IndexError", result |-> msgs]
    ELSE IF msgs[1].role # "system" /\ self.has_system_prompt
    THEN [err |-> Ok, result |-> Append(msgs, Message("system", self.system_prompt))]
    ELSE [err |-> Ok, result |-> msgs]

\* a variant that does not look at the first message's role
format_messages_chat_NoRoleCheck(self, msgs) ==
    IF msgs = <<>>
    THEN [err |-> "IndexError", result |-> msgs]
    ELSE IF self.has_system_prompt
    THEN [err |-> Ok, result |-> <<Message("system", self.system_prompt)>> \o msgs]
    ELSE [err |-> Ok, result |-> msgs]
\* format_messages_chat: the list as the call leaves it (it is changed in place
\* and returned); messages[0] of an empty list raises IndexError
format_messages_chat(self, msgs) ==
    IF msgs = <<>>
    THEN [err |-> "IndexError", result |-> msgs]
    ELSE IF msgs[1].role # "system" /\ self.has_system_prompt
    THEN [err |-> Ok, result |-> <<Message("system", self.system_prompt)>> \o msgs]
    ELSE [err |-> Ok, result |-> msgs]

(***************************************************************************)
(* Installations: the fully provisioned one, and what may be wrong with it.*)
(***************************************************************************)
ModelFolder == "m"
PromptFile == "s"
ToolNames == {"a", "b"}

ResourcePath(r) ==
    CASE r = "tokenizer_config" ->
            Join(DirOf("MODEL_CONFIG_DIR"), InFolder(ModelFolder, <<"tokenizer", "config">>, "json"))
      [] r = "tokenizer" ->
            Join(DirOf("MODEL_CONFIG_DIR"), InFolder(ModelFolder, <<"tokenizer">>, "json"))
      [] r = "prompt" ->
            Join(DirOf("SYSTEM_PROMPTS_DIR"), FileName(<<PromptFile>>, "txt"))
      [] r \in ToolNames ->
            Join(DirOf("TOOL_DEFINITIONS_DIR"), FileName(<<r>>, "json"))

ResourceData(r) == IF r = "prompt" THEN Text("S") ELSE JsonDump(Dict(r))

Resources == {"tokenizer_config", "tokenizer", "prompt"} \cup ToolNames

\* profile files that may already lie in the profiles directory
StaleStem(id) ==
    CASE id = "p" -> <<"p">>
      [] id = "p_1" -> <<"p", "1">>
      [] id = "p_2" -> <<"p", "2">>

StaleIds == {"p", "p_1", "p_2"}

\* the callers that run save_profile at the same time, and a caller that is
\* not inside save_profile
Writers == {"w1", "w2"}

IdleWriter ==
    [pc |-> "idle", slot |-> 0, profile_name |-> <<>>, unique_profile_name |-> <<>>,
     counter |-> 0, err |-> Ok, created |-> FALSE]

\* the batch loop of the dataset generator when it is not running
NoBatch == [pc |-> "none"]
NoFault == [kind |-> "none", obj |-> "", alt |-> ""]

EnvFaults(variables) ==
    [kind : {"env"}, obj : variables, alt : {NONE, ""}]

FileFaults(resources) ==
    [kind : {"file"}, obj : resources,
     alt : {"absent", "unreadable", "empty", "unreadable_empty", "garbage"}]

StoreFaults ==
    [kind : {"env"}, obj : {"PROFILES_DIR"}, alt : {NONE, ""}]
    \cup [kind : {"dir"}, obj : {DirOf("PROFILES_DIR")}, alt : {"absent"}]
    \cup [kind : {"stale"}, obj : StaleIds, alt : {"garbage"}]

\* what the list of faults says about one object: the first entry naming it
FaultOf(faults, kind, obj) ==
    LET hits == {i \in DOMAIN faults : faults[i].kind = kind /\ faults[i].obj = obj}
    IN  IF hits = {} THEN "none"
        ELSE faults[CHOOSE i \in hits : \A j \in hits : i <= j].alt

FaultyFile(good, alt) ==
    CASE alt = "none" -> File(TRUE, good)
      [] alt = "unreadable" -> File(FALSE, good)
      [] alt = "empty" -> File(TRUE, NoData)
      [] alt = "unreadable_empty" -> File(FALSE, NoData)
      [] alt = "garbage" -> File(TRUE, Text("garbage"))

WorldEnv(faults) ==
    [v \in EnvVars |->
        IF FaultOf(faults, "env", v) = "none" THEN DirOf(v) ELSE FaultOf(faults, "env", v)]

WorldDirs(faults) ==
    {DirOf(v) : v \in EnvVars} \ {d \in {DirOf("PROFILES_DIR")} : FaultOf(faults, "dir", d) # "none"}

WorldFiles(faults) ==
    LET present == {r \in Resources : FaultOf(faults, "file", r) # "absent"}
        stale == IF DirOf("PROFILES_DIR") \in WorldDirs(faults)
                 THEN {id \in StaleIds : FaultOf(faults, "stale", id) # "none"}
                 ELSE {}
        paths == {ResourcePath(r) : r \in present}
                 \cup {profile_path(DirOf("PROFILES_DIR"), StaleStem(id)) : id \in stale}
    IN  [p \in paths |->
            IF p.dir = DirOf("PROFILES_DIR")
            THEN File(TRUE, Text("garbage"))
            ELSE LET r == CHOOSE r \in present : ResourcePath(r) = p
                 IN  FaultyFile(ResourceData(r), FaultOf(faults, "file", r))]

\* the state before the program's first call, in an installation with at most
\* MaxFaults of the given faults
InitWorld(options) ==
    /\ \E faults \in [1..MaxFaults -> options \cup {NoFault}] :
        /\ env = WorldEnv(faults)
        /\ dirs = WorldDirs(faults)
        /\ fs = WorldFiles(faults)
    /\ profiles = <<>>
    /\ dicts = <<EmptyDict>>
    /\ messages = <<>>
    /\ last = [op |-> "none"]
    /\ writers = [w \in Writers |-> IdleWriter]
    /\ batch = NoBatch

(***************************************************************************)
(* The calls a caller makes, one action per call.                          *)
(***************************************************************************)
Resolve(env_variable, resource_name) ==
    /\ last' = [op |-> "get_full_resource_path",
                env_variable |-> env_variable,
                resource_name |-> resource_name,
                returned |-> get_full_resource_path(env_variable, resource_name)]
    /\ UNCHANGED <<env, dirs, fs, profiles, dicts, messages, writers, batch>>

Construct(a, ohp_given) ==
    /\ Len(profiles) < MaxProfiles
    /\ LET made == init(a, ohp_given)
       IN  /\ profiles' = IF made.err = Ok THEN Append(profiles, made.obj) ELSE profiles
           /\ dicts' = made.dicts
           /\ last' = [op |-> "__init__", args |-> a, ohp_given |-> ohp_given,
                       err |-> made.err, lookups |-> made.lookups,
                       slot |-> IF made.err = Ok THEN Len(profiles) + 1 ELSE 0]
    /\ UNCHANGED <<env, dirs, fs, messages, writers, batch>>

LoadProfile(profile_name) ==
    /\ Len(profiles) < MaxProfiles
    /\ LET made == load_profile(profile_name)
       IN  /\ profiles' = IF made.err = Ok THEN Append(profiles, made.obj) ELSE profiles
           /\ dicts' = made.dicts
           /\ last' = [op |-> "load_profile", profile_name |-> profile_name,
                       err |-> made.err, lookups |-> made.lookups,
                       slot |-> IF made.err = Ok THEN Len(profiles) + 1 ELSE 0]
    /\ UNCHANGED <<env, dirs, fs, messages, writers, batch>>

SaveProfile(i, profile_name) ==
    /\ i \in DOMAIN profiles
    /\ Cardinality({p \in DOMAIN fs : p.dir = DirOf("PROFILES_DIR")}) < MaxProfileFiles
    /\ LET saved == save_profile(profiles[i], profile_name)
       IN  /\ fs' = saved.fs
           /\ dirs' = saved.dirs
           /\ last' = [op |-> "save_profile", slot |-> i, profile_name |-> profile_name,
                       err |-> saved.err, path |-> saved.path,
                       made_dirs |-> saved.dirs \ dirs]
    /\ UNCHANGED <<env, profiles, dicts, messages, writers, batch>>

SetApiKey(i, api_key) ==
    /\ i \in DOMAIN profiles
    /\ profiles' = [profiles EXCEPT ![i] = set_api_key(@, api_key)]
    /\ last' = [op |-> "set_api_key", slot |-> i, api_key |-> api_key]
    /\ UNCHANGED <<env, dirs, fs, dicts, messages, writers, batch>>

SetOptionalParam(i, params) ==
    /\ i \in DOMAIN profiles
    /\ dicts' = set_optional_param(profiles[i], params)
    /\ last' = [op |-> "set_optional_param", slot |-> i, params |-> params]
    /\ UNCHANGED <<env, dirs, fs, profiles, messages, writers, batch>>

FormatInferenceParams(i) ==
    /\ i \in DOMAIN profiles
    /\ last' = [op |-> "format_inference_params", slot |-> i,
                returned |-> format_inference_params(profiles[i])]
    /\ UNCHANGED <<env, dirs, fs, profiles, dicts, messages, writers, batch>>

GetTokenCount(i, text) ==
    /\ i \in DOMAIN profiles
    /\ last' = [op |-> "get_token_count", slot |-> i, text |-> text,
                returned |-> get_token_count(profiles[i], text)]
    /\ UNCHANGED <<env, dirs, fs, profiles, dicts, messages, writers, batch>>

\* the caller builds a new message list
NewMessages(msgs) ==
    /\ messages' = msgs
    /\ last' = [op |-> "messages"]
    /\ UNCHANGED <<env, dirs, fs, profiles, dicts, writers, batch>>

\* the caller passes its list to format_messages_chat
FormatMessagesChat(i) ==
    /\ i \in DOMAIN profiles
    /\ LET out == format_messages_chat(profiles[i], messages)
       IN  /\ messages' = out.result
           /\ last' = [op |-> "format_messages_chat", slot |-> i, given |-> messages,
                       err |-> out.err, returned |-> out.result]
    /\ UNCHANGED <<env, dirs, fs, profiles, dicts, writers, batch>>

(***************************************************************************)
(* The inputs the calls are given.                                         *)
(***************************************************************************)
\* tool lists: the listed names in any order, and one name listed twice
ToolLists ==
    {<<>>} \cup {<<Str(t)>> : t \in ToolNames}
    \cup {<<Str(t), Str(u)>> : t \in ToolNames, u \in ToolNames}

\* optional_hyper_parameters passed to the constructor
HyperParameters == {EmptyDict, [k \in {"temperature"} |-> "0.7"]}

\* params passed to set_optional_param
Overrides == {[k \in {"model"} |-> "m2"], [k \in {"temperature"} |-> "1.0"]}

ConstructorArgs(prompt_files, tool_lists, hyper_parameters, flags) ==
    [engine_name : {"vllm"},
     base_url : {"http://localhost:8000/v1"},
     model_id : {"m1"},
     config_folder_name : {ModelFolder},
     api_key : {"CHANGE_ME"},
     system_prompt_file : prompt_files,
     tools : tool_lists,
     optional_hyper_parameters : hyper_parameters,
     load_tokenizer_flag : flags]

ResourceNames == {ResourcePath(r).name : r \in Resources} \cup {FileName(<<"p">>, "json")}

ProfileNames == {<<"p">>, <<"p", "1">>}

ApiKeys == {"CHANGE_ME", "sk-1"}

Roles == {"system", "user"}

MessageLists == UNION {[1..n -> [role : Roles, content : {"hi"}]] : n \in 0..MaxMessages}

Texts == {<<>>, <<"hello", "world">>}

(***************************************************************************)
(* Specifications.                                                         *)
(***************************************************************************)
\* one call of the resolver, over installations with any fault
InitResolve == InitWorld(EnvFaults(EnvVars) \cup FileFaults(Resources))

NextResolve ==
    \E v \in EnvVars, n \in ResourceNames : last.op = "none" /\ Resolve(v, n)

SpecResolve == InitResolve /\ [][NextResolve]_vars

\* one construction, over installations with any fault of its resources
InitConstruct ==
    InitWorld(EnvFaults(EnvVars \ {"PROFILES_DIR"}) \cup FileFaults(Resources))

NextConstruct ==
    \E a \in ConstructorArgs({"", PromptFile}, ToolLists, {EmptyDict}, BOOLEAN) :
        last.op = "none" /\ Construct(a, FALSE)

SpecConstruct == InitConstruct /\ [][NextConstruct]_vars

\* the profile store: one profile is constructed, changed, saved and loaded
\* back, over installations with any fault of the profiles directory
InitStore == InitWorld(StoreFaults)

NextStore ==
    \/ \E a \in ConstructorArgs({"", PromptFile}, {<<>>, <<Str("a")>>}, HyperParameters, BOOLEAN) :
            profiles = <<>> /\ Construct(a, TRUE)
    \/ \E k \in ApiKeys : SetApiKey(1, k)
    \/ \E n \in ProfileNames : SaveProfile(1, n)
    \/ \E n \in ProfileNames : LoadProfile(n)

SpecStore == InitStore /\ [][NextStore]_vars

\* request parameters and the mutators, in the fully provisioned installation
InitUse == InitWorld({})

NextUse ==
    \/ \E a \in ConstructorArgs({""}, {<<>>}, HyperParameters, {FALSE}), g \in BOOLEAN :
            Construct(a, g)
    \/ \E i \in 1..MaxProfiles, k \in ApiKeys : SetApiKey(i, k)
    \/ \E i \in 1..MaxProfiles, d \in Overrides : SetOptionalParam(i, d)
    \/ \E i \in 1..MaxProfiles : FormatInferenceParams(i)

SpecUse == InitUse /\ [][NextUse]_vars

\* token counts, in the fully provisioned installation
InitTokens == InitWorld({})

NextTokens ==
    \/ \E a \in ConstructorArgs({""}, {<<>>}, {EmptyDict}, BOOLEAN) : Construct(a, FALSE)
    \/ \E i \in 1..MaxProfiles, k \in ApiKeys : SetApiKey(i, k)
    \/ \E i \in 1..MaxProfiles, d \in Overrides : SetOptionalParam(i, d)
    \/ \E i \in 1..MaxProfiles, t \in Texts : GetTokenCount(i, t)

SpecTokens == InitTokens /\ [][NextTokens]_vars

\* message formatting, in the fully provisioned installation
InitChat == InitWorld({})

NextChat ==
    \/ \E a \in ConstructorArgs({"", PromptFile}, {<<>>}, {EmptyDict}, {FALSE}) :
            Construct(a, FALSE)
    \/ \E m \in MessageLists : NewMessages(m)
    \/ \E i \in 1..MaxProfiles : FormatMessagesChat(i)

SpecChat == InitChat /\ [][NextChat]_vars

(***************************************************************************)
(* Properties of the resolver (SpecResolve).                               *)
(***************************************************************************)
Resolved == last.op = "get_full_resource_path"

\* the path the resolver joins for the call recorded in last
JoinedPath == Join(env[last.env_variable], last.resource_name)

\* C2: whenever the named environment variable is unset,
\* get_full_resource_path raises the configuration error (EnvironmentError),
\* whatever the resource name and whatever the filesystem holds, and it has
\* made no filesystem call (isfile, access, getsize) when it raises.
C2_UnsetRaisesBeforeFilesystem ==
    (Resolved /\ env[last.env_variable] = NONE)
        => /\ last.returned.err = "EnvironmentError"
           /\ last.returned.probes = <<>>

\* C2 witness: the variable is unset while the installation does hold files
\* that are absent or damaged, and the call raised the configuration error.
C2_Witness ==
    /\ Resolved
    /\ env[last.env_variable] = NONE
    /\ last.returned.err = "EnvironmentError"
    /\ \E r \in Resources : ResourcePath(r) \notin DOMAIN fs

\* C3: with the environment variable set, the outcome is decided by the state
\* of the file at the joined path, in this precedence: not-found if no file is
\* there; permission error if it is there but unreadable (empty or not); the
\* empty-resource error if it is there, readable and of zero length; otherwise
\* the joined path is returned. The path is returned if and only if the file
\* exists, is readable and is non-empty, and the three errors are kinds no
\* handler for one of them catches another.
C3_OutcomeByFileState ==
    (Resolved /\ env[last.env_variable] # NONE) =>
        LET p == JoinedPath
            r == last.returned
            there == p \in DOMAIN fs
        IN  /\ ~there => r.err = "FileNotFoundError"
            /\ (there /\ ~fs[p].readable) => r.err = "PermissionError"
            /\ (there /\ fs[p].readable /\ fs[p].data = NoData) => r.err = "ValueError"
            /\ (there /\ fs[p].readable /\ fs[p].data # NoData) => r.err = Ok /\ r.path = p
            /\ r.err = Ok <=> (there /\ fs[p].readable /\ fs[p].data # NoData)
            /\ Distinguishable("FileNotFoundError", "PermissionError")
            /\ Distinguishable("FileNotFoundError", "ValueError")
            /\ Distinguishable("PermissionError", "ValueError")

\* C3 witness: a readable file of zero length was resolved and the
\* empty-resource error raised.
C3_Witness ==
    /\ Resolved
    /\ env[last.env_variable] # NONE
    /\ JoinedPath \in DOMAIN fs
    /\ fs[JoinedPath].readable
    /\ fs[JoinedPath].data = NoData
    /\ last.returned.err = "ValueError"

(***************************************************************************)
(* Properties of construction (SpecConstruct).                             *)
(***************************************************************************)
Constructed == last.op = "__init__"

\* a variable set to a directory, and the file of a resource under it
SetToDir(v) == env[v] = DirOf(v)

Missing(path) == path \notin DOMAIN fs

\* a file that passes file_sanity_check
Usable(path) == path \in DOMAIN fs /\ fs[path].readable /\ fs[path].data # NoData

ConfigPath == ResourcePath("tokenizer_config")
TokenizerPath == ResourcePath("tokenizer")
PromptPath == ResourcePath("prompt")
ToolPath(tool) == Join(env["TOOL_DEFINITIONS_DIR"], FileName(<<tool.id>>, "json"))

\* the two lookups under MODEL_CONFIG_DIR find usable files
ModelConfigUsable ==
    SetToDir("MODEL_CONFIG_DIR") /\ Usable(ConfigPath) /\ Usable(TokenizerPath)

\* C8 (as claimed): with MODEL_CONFIG_DIR set and tokenizer_config.json (or
\* tokenizer.json) absent for the profile's config_folder_name, and nothing
\* else asked of the installation (no system prompt, no tools, the other of
\* the two files usable), construction completes and the attribute of the
\* absent file is simply not set.
C8_AbsentTokenizerFilesTolerated ==
    (/\ Constructed
     /\ SetToDir("MODEL_CONFIG_DIR")
     /\ last.args.system_prompt_file = ""
     /\ last.args.tools = <<>>
     /\ \/ Missing(ConfigPath) /\ Usable(TokenizerPath)
        \/ Missing(TokenizerPath) /\ Usable(ConfigPath))
        => /\ last.err = Ok
           /\ Len(profiles) = 1
           /\ Missing(ConfigPath) => ~profiles[1].has_tokenizer_config
           /\ Missing(TokenizerPath) => ~profiles[1].has_tokenizer

ToolUnusable(tool) == env["TOOL_DEFINITIONS_DIR"] # NONE /\ ~Usable(ToolPath(tool))

\* C10: after a successful construction with tools = [t1..tn] the tools field
\* is the sequence of the documents parsed from t1.json .. tn.json, of the
\* same length and in the order of the names; and if the file of any listed
\* tool, at whatever position, is missing, unreadable or empty, construction
\* fails and no profile is produced.
C10_ToolsLoadedInOrderOrFatal ==
    Constructed =>
        LET names == last.args.tools
        IN  /\ last.err = Ok
                => /\ Len(profiles[1].tools) = Len(names)
                   /\ \A i \in DOMAIN names :
                        profiles[1].tools[i] = JsonLoad(fs[ToolPath(names[i])].data)
            /\ (\E i \in DOMAIN names : ToolUnusable(names[i]))
                => last.err # Ok /\ profiles = <<>>

\* C10 witness: two different tools were listed, b before a, and construction
\* succeeded with two different documents loaded.
C10_Witness ==
    /\ Constructed
    /\ last.err = Ok
    /\ last.args.tools = <<Str("b"), Str("a")>>
    /\ profiles[1].tools[1] # profiles[1].tools[2]

(***************************************************************************)
(* Properties of message formatting (SpecChat).                            *)
(***************************************************************************)
Formatted == last.op = "format_messages_chat"

\* C5: format_messages_chat on a non-empty list: if the first message's role
\* is not "system" and the profile loaded a system prompt S at construction
\* (S being the text of its prompt file), the result is the given messages in
\* their order preceded by exactly one new message {role: "system",
\* content: S}; in every other case (the first role is "system", or no prompt
\* was loaded) the result is the given list, nothing added, removed or
\* reordered. The caller's list is what is returned.
C5_SystemMessagePrefixed ==
    (Formatted /\ last.given # <<>>) =>
        LET self == profiles[last.slot]
            loaded == self.system_prompt_file # ""
            S == fs[Join(env["SYSTEM_PROMPTS_DIR"],
                         FileName(<<self.system_prompt_file>>, "txt"))].data.id
        IN  /\ last.err = Ok
            /\ messages = last.returned
            /\ IF last.given[1].role # "system" /\ loaded
               THEN /\ Len(last.returned) = Len(last.given) + 1
                    /\ last.returned[1] = [role |-> "system", content |-> S]
                    /\ \A i \in DOMAIN last.given : last.returned[i + 1] = last.given[i]
               ELSE last.returned = last.given

\* C5 witness: a list of two messages starting with a user message was
\* formatted by a profile with a loaded prompt and came back one longer.
C5_Witness ==
    /\ Formatted
    /\ Len(last.given) = 2
    /\ last.given[1].role = "user"
    /\ profiles[last.slot].has_system_prompt
    /\ Len(last.returned) = 3

C7_TokenCountNeedsFlag ==
    /\ [](last.op = "get_token_count" /\ ~profiles[last.slot].load_tokenizer_flag
            => last.returned.err = "ValueError")
    /\ [][/\ \A i \in DOMAIN profiles :
                profiles'[i].load_tokenizer_flag = profiles[i].load_tokenizer_flag
          /\ (last'.op = "__init__" /\ last'.err = Ok)
                => profiles'[last'.slot].load_tokenizer_flag = last'.args.load_tokenizer_flag]_vars

\* C7 witness: a profile constructed with the flag false had its api key and
\* its hyperparameters changed, and a count of a non-empty text was refused.
C7_Witness ==
    /\ last.op = "get_token_count"
    /\ last.text # <<>>
    /\ ~profiles[last.slot].load_tokenizer_flag
    /\ profiles[last.slot].api_key = "sk-1"
    /\ dicts[profiles[last.slot].optional_hyper_parameters] # EmptyDict
    /\ last.returned.err = "ValueError"

(***************************************************************************)
(* Properties of the profile store (SpecStore).                            *)
(***************************************************************************)
ProfilesDir == DirOf("PROFILES_DIR")

\* <name>.json, and <name>_k.json for k >= 1, in the profiles directory
NamedPath(profile_name) == Join(ProfilesDir, FileName(profile_name, "json"))
SuffixedPath(profile_name, k) ==
    Join(ProfilesDir, FileName(Append(profile_name, Decimal(k)), "json"))

\* C1: a save_profile(name) call by a single writer, with PROFILES_DIR naming
\* a directory, overwrites no file that existed before the call and creates
\* exactly one new file: <name>.json if that path was unused, otherwise
\* <name>_k.json for the smallest k >= 1 whose path was unused.
C1_SaveNeverOverwrites ==
    [][(last'.op = "save_profile" /\ env["PROFILES_DIR"] = ProfilesDir) =>
        LET name == last'.profile_name
        IN  /\ last'.err = Ok
            /\ \A p \in DOMAIN fs : p \in DOMAIN fs' /\ fs'[p] = fs[p]
            /\ DOMAIN fs' \ DOMAIN fs = {last'.path}
            /\ IF NamedPath(name) \notin DOMAIN fs
               THEN last'.path = NamedPath(name)
               ELSE \E k \in 1..MaxProfileFiles :
                        /\ last'.path = SuffixedPath(name, k)
                        /\ \A j \in 1..(k - 1) : SuffixedPath(name, j) \in DOMAIN fs]_vars

\* C1 witness: p.json and p_1.json lie in the directory and save_profile("p")
\* has just written p_2.json.
C1_Witness ==
    /\ last.op = "save_profile"
    /\ last.profile_name = <<"p">>
    /\ last.err = Ok
    /\ last.path = SuffixedPath(<<"p">>, 2)
    /\ {NamedPath(<<"p">>), SuffixedPath(<<"p">>, 1)} \subseteq DOMAIN fs

\* the fields resource loading does not change, as a mapping
Unloaded(self, heap) ==
    [engine_name |-> self.engine_name,
     base_url |-> self.base_url,
     model_id |-> self.model_id,
     config_folder_name |-> self.config_folder_name,
     api_key |-> self.api_key,
     system_prompt_file |-> self.system_prompt_file,
     optional_hyper_parameters |-> heap[self.optional_hyper_parameters],
     load_tokenizer_flag |-> self.load_tokenizer_flag]

\* load_profile(name) called right after a save_profile(name) that wrote <name>.json
SavedThenLoaded ==
    /\ last.op = "save_profile"
    /\ last.err = Ok
    /\ last.path = NamedPath(last.profile_name)
    /\ last'.op = "load_profile"
    /\ last'.profile_name = last.profile_name

\* C4 (as claimed): for every constructed profile, a non-empty tools list
\* included, and every name whose <name>.json did not exist, save_profile(name)
\* followed by load_profile(name) succeeds and gives a profile equal to the
\* saved one on every field resource loading does not change.
C4_RoundTrip ==
    [][SavedThenLoaded =>
        /\ last'.err = Ok
        /\ Unloaded(profiles'[last'.slot], dicts') = Unloaded(profiles[last.slot], dicts)]_vars

\* the round trip of a profile constructed without tools
C4_RoundTripWithoutTools ==
    [][(SavedThenLoaded /\ profiles[last.slot].tools = <<>>) =>
        /\ last'.err = Ok
        /\ Unloaded(profiles'[last'.slot], dicts') = Unloaded(profiles[last.slot], dicts)]_vars

(***************************************************************************)
(* First use of the directory variables (SpecFirstUse).                    *)
(***************************************************************************)
\* one construction, in an installation whose files are all in place and whose
\* directory variables are each unset, empty or set, in any combination
InitFirstUse ==
    /\ env \in {e \in [EnvVars -> UNION {EnvValues(v) : v \in EnvVars}] :
                    \A v \in EnvVars : e[v] \in EnvValues(v)}
    /\ dirs = WorldDirs(<<>>)
    /\ fs = WorldFiles(<<>>)
    /\ profiles = <<>>
    /\ dicts = <<EmptyDict>>
    /\ messages = <<>>
    /\ last = [op |-> "none"]
    /\ writers = [w \in Writers |-> IdleWriter]
    /\ batch = NoBatch

NextFirstUse ==
    \E a \in ConstructorArgs({"", PromptFile}, ToolLists, {EmptyDict}, BOOLEAN) :
        last.op = "none" /\ Construct(a, FALSE)

SpecFirstUse == InitFirstUse /\ [][NextFirstUse]_vars

Unset(v) == env[v] = NONE

NoLookupOf(v) == \A i \in DOMAIN last.lookups : last.lookups[i] # v

\* C11: each directory variable is needed only when its resource class is
\* first used. In an installation whose files are in place: (a) construction
\* with an empty system_prompt_file and an empty tools list succeeds once
\* MODEL_CONFIG_DIR names its directory, whatever SYSTEM_PROMPTS_DIR,
\* TOOL_DEFINITIONS_DIR and PROFILES_DIR are (all three unset included), and it
\* looks none of them up; PROFILES_DIR is never looked up by a construction;
\* (b) any construction with MODEL_CONFIG_DIR unset fails with the
\* configuration error (EnvironmentError); (c) a non-empty system_prompt_file
\* with SYSTEM_PROMPTS_DIR unset, and a non-empty tools list with
\* TOOL_DEFINITIONS_DIR unset, never yield a profile, and fail with the
\* configuration error unless a lookup made before fails for another reason
\* (a variable set to the empty string).
C11_RequiredAtFirstUse ==
    Constructed =>
        LET wantPrompt == last.args.system_prompt_file # ""
            wantTools == last.args.tools # <<>>
        IN  /\ NoLookupOf("PROFILES_DIR")
            /\ ~wantPrompt => NoLookupOf("SYSTEM_PROMPTS_DIR")
            /\ ~wantTools => NoLookupOf("TOOL_DEFINITIONS_DIR")
            /\ (~wantPrompt /\ ~wantTools /\ SetToDir("MODEL_CONFIG_DIR"))
                  => last.err = Ok /\ Len(profiles) = 1
            /\ Unset("MODEL_CONFIG_DIR")
                  => last.err = "EnvironmentError" /\ profiles = <<>>
            /\ (wantPrompt /\ Unset("SYSTEM_PROMPTS_DIR"))
                  => /\ last.err # Ok
                     /\ profiles = <<>>
                     /\ env["MODEL_CONFIG_DIR"] # "" => last.err = "EnvironmentError"
            /\ (wantTools /\ Unset("TOOL_DEFINITIONS_DIR"))
                  => /\ last.err # Ok
                     /\ profiles = <<>>
                     /\ (/\ env["MODEL_CONFIG_DIR"] # ""
                         /\ wantPrompt => env["SYSTEM_PROMPTS_DIR"] # "")
                            => last.err = "EnvironmentError"

\* C11 witness: SYSTEM_PROMPTS_DIR, TOOL_DEFINITIONS_DIR and PROFILES_DIR are
\* all unset and a profile without prompt file and tools was constructed.
C11_Witness ==
    /\ Constructed
    /\ Unset("SYSTEM_PROMPTS_DIR")
    /\ Unset("TOOL_DEFINITIONS_DIR")
    /\ Unset("PROFILES_DIR")
    /\ last.args.system_prompt_file = ""
    /\ last.args.tools = <<>>
    /\ last.err = Ok
    /\ Len(profiles) = 1

\* C12: save_profile(name) with PROFILES_DIR unset raises the configuration
\* error (EnvironmentError) and changes nothing on the filesystem: no
\* directory is created and no file is written; with PROFILES_DIR naming a
\* directory that does not exist, the call creates that directory and writes
\* the profile's field mapping as <name>.json inside it, and nothing else.
C12_SaveNeedsProfilesDir ==
    [][last'.op = "save_profile" =>
        /\ env["PROFILES_DIR"] = NONE
              => /\ last'.err = "EnvironmentError"
                 /\ dirs' = dirs
                 /\ fs' = fs
        /\ (env["PROFILES_DIR"] = ProfilesDir /\ ProfilesDir \notin dirs)
              => /\ last'.err = Ok
                 /\ dirs' = dirs \cup {ProfilesDir}
                 /\ last'.path = NamedPath(last'.profile_name)
                 /\ DOMAIN fs' = DOMAIN fs \cup {NamedPath(last'.profile_name)}
                 /\ \A p \in DOMAIN fs : fs'[p] = fs[p]
                 /\ fs'[NamedPath(last'.profile_name)]
                        = File(TRUE, JsonDump(to_dict(profiles[last'.slot])))]_vars

\* C12 witness: the profiles directory did not exist; save_profile created it
\* and <name>.json now lies in it.
C12_Witness ==
    /\ last.op = "save_profile"
    /\ last.err = Ok
    /\ last.made_dirs = {ProfilesDir}
    /\ ProfilesDir \in dirs
    /\ last.path = NamedPath(last.profile_name)
    /\ last.path \in DOMAIN fs

(***************************************************************************)
(* Properties of the mutators (SpecMutate).                                *)
(***************************************************************************)
\* one profile, constructed with or without prompt file, tools, tokenizer and
\* hyperparameters of its own, and then changed by its two mutators
InitMutate == InitWorld({})

NextMutate ==
    \/ \E a \in ConstructorArgs({"", PromptFile}, {<<>>, <<Str("a")>>}, HyperParameters, BOOLEAN),
          g \in BOOLEAN :
            profiles = <<>> /\ Construct(a, g)
    \/ \E k \in ApiKeys : SetApiKey(1, k)
    \/ \E d \in Overrides : SetOptionalParam(1, d)

SpecMutate == InitMutate /\ [][NextMutate]_vars

\* C13: set_optional_param(params) is a shallow merge: afterwards the
\* profile's optional_hyper_parameters holds every key of params with params'
\* value, every key it held before and params does not name with the value it
\* had, and no other key; every other field of the profile (model_id,
\* base_url, api_key, tools, the system prompt, load_tokenizer_flag and the
\* rest) is as before. set_api_key(k) sets api_key to k and changes no other
\* field and no hyperparameter.
C13_MutatorsFrame ==
    [][/\ last'.op = "set_optional_param" =>
            LET self == profiles[last'.slot]
                before == dicts[self.optional_hyper_parameters]
                after == dicts'[profiles'[last'.slot].optional_hyper_parameters]
                params == last'.params
            IN  /\ DOMAIN after = DOMAIN before \cup DOMAIN params
                /\ \A k \in DOMAIN params : after[k] = params[k]
                /\ \A k \in DOMAIN before \ DOMAIN params : after[k] = before[k]
                /\ profiles' = profiles
       /\ last'.op = "set_api_key" =>
            /\ profiles'[last'.slot].api_key = last'.api_key
            /\ profiles' = [profiles EXCEPT ![last'.slot].api_key = last'.api_key]
            /\ dicts' = dicts]_vars

\* C13 witness: a profile with a prompt, a tool and temperature 0.7 was given
\* {"model": "m2"}: it now holds both keys, the old one with its old value.
C13_Witness ==
    /\ last.op = "set_optional_param"
    /\ last.params = [k \in {"model"} |-> "m2"]
    /\ profiles[last.slot].has_system_prompt
    /\ profiles[last.slot].tools # <<>>
    /\ dicts[profiles[last.slot].optional_hyper_parameters]
            = [k \in {"model", "temperature"} |-> IF k = "model" THEN "m2" ELSE "0.7"]

(***************************************************************************)
(* format_messages_chat called twice on the same list (SpecChat).          *)
(***************************************************************************)
\* the list in messages was formatted by a profile with a loaded prompt when
\* its first message had a non-system role, and the same profile is now
\* handed the same list again
FormattedAgain ==
    /\ Formatted
    /\ last.given # <<>>
    /\ last.given[1].role # "system"
    /\ profiles[last.slot].has_system_prompt
    /\ last'.op = "format_messages_chat"
    /\ last'.slot = last.slot

SystemMessage(self) == Message("system", self.system_prompt)

\* C14 (as claimed): two calls in succession on the same list, whose first
\* message had a non-system role, by a profile with a loaded prompt, duplicate
\* the inserted message: after the second call the list begins with two
\* system messages carrying the prompt.
C14_SecondCallDuplicates ==
    [][FormattedAgain =>
        /\ Len(messages') >= 2
        /\ messages'[1] = SystemMessage(profiles[last.slot])
        /\ messages'[2] = SystemMessage(profiles[last.slot])]_vars

\* C14 (amended): the second of two such calls changes nothing: the first call
\* left the system message at the head of the caller's list, so the second
\* finds a system role first and inserts nothing; after it the list is one
\* system message carrying the prompt followed by the original messages.
C14_SecondCallInsertsNothing ==
    [][FormattedAgain =>
        /\ last'.err = Ok
        /\ last'.given = messages
        /\ messages' = messages
        /\ messages' = <<SystemMessage(profiles[last.slot])>> \o last.given
        /\ messages'[2].role # "system"]_vars

\* C14 witness: a list that a first call had prefixed with the prompt (no
\* caller's message carries the prompt's text) was formatted a second time and
\* came back as it was, one system message before the user message.
C14_Witness ==
    /\ Formatted
    /\ Len(last.given) >= 2
    /\ last.given[1] = SystemMessage(profiles[last.slot])
    /\ profiles[last.slot].has_system_prompt
    /\ last.given[2].role = "user"
    /\ last.returned = last.given
    /\ messages = last.given

(***************************************************************************)
(* save_profile run by two callers at once, step by step (SpecRace).       *)
(***************************************************************************)
\* the path a caller inside save_profile holds in file_path
file_path(w) == profile_path(env["PROFILES_DIR"], writers[w].unique_profile_name)

\* the profile a caller saves: each caller owns one
OwnProfile(w) == IF w = "w1" THEN 1 ELSE 2

\* a variant that opens for exclusive creation
open_write_Exclusive(path) ==
    IF Exists(path)
    THEN [err |-> "FileExistsError", fs |-> fs]
    ELSE [err |-> Ok,
          fs |-> [p \in DOMAIN fs \cup {path} |->
                     IF p = path THEN File(TRUE, NoData) ELSE fs[p]]]

\* open(file_path, "w"): the file is created, or truncated if it exists
open_write(path) ==
    [err |-> Ok,
     fs |-> [p \in DOMAIN fs \cup {path} |->
                IF p = path THEN File(TRUE, NoData) ELSE fs[p]]]

\* what the file may hold after json.dump and close wrote data from offset 0:
\* data, or, if another caller's different text was in the file by then, also
\* data followed by the rest of that text
Written(path, data) ==
    IF fs[path].data \in {NoData, data} THEN {data} ELSE {data, Text("garbage")}

\* save_profile up to the loop: getenv, the test, makedirs, the first path
SaveBegin(w, profile_name) ==
    /\ writers[w].pc = "idle"
    /\ OwnProfile(w) \in DOMAIN profiles
    /\ LET profiles_dir == env["PROFILES_DIR"]
       IN  IF profiles_dir = NONE \/ profiles_dir = ""
           THEN /\ writers' = [writers EXCEPT ![w] =
                        [@ EXCEPT !.pc = "done", !.err = "EnvironmentError",
                                  !.slot = OwnProfile(w), !.profile_name = profile_name]]
                /\ dirs' = dirs
           ELSE /\ writers' = [writers EXCEPT ![w] =
                        [pc |-> "probe", slot |-> OwnProfile(w), profile_name |-> profile_name,
                         unique_profile_name |-> profile_name, counter |-> 1,
                         err |-> Ok, created |-> FALSE]]
                /\ dirs' = dirs \cup {profiles_dir}
    /\ last' = [op |-> "save_profile_step", writer |-> w]
    /\ UNCHANGED <<env, fs, profiles, dicts, messages, batch>>

\* one test of the while loop, and its body if the path exists
SaveProbe(w) ==
    /\ writers[w].pc = "probe"
    /\ writers' = [writers EXCEPT ![w] =
            IF Exists(file_path(w))
            THEN [@ EXCEPT !.unique_profile_name =
                               Append(writers[w].profile_name, Decimal(writers[w].counter)),
                           !.counter = @ + 1]
            ELSE [@ EXCEPT !.pc = "open"]]
    /\ last' = [op |-> "save_profile_step", writer |-> w]
    /\ UNCHANGED <<env, dirs, fs, profiles, dicts, messages, batch>>

\* open(file_path, "w")
SaveOpen(w) ==
    /\ writers[w].pc = "open"
    /\ LET opened == open_write(file_path(w))
       IN  /\ fs' = opened.fs
           /\ writers' = [writers EXCEPT ![w] =
                    IF opened.err = Ok
                    THEN [@ EXCEPT !.pc = "dump", !.created = ~Exists(file_path(w))]
                    ELSE [@ EXCEPT !.pc = "done", !.err = opened.err]]
    /\ last' = [op |-> "save_profile_step", writer |-> w]
    /\ UNCHANGED <<env, dirs, profiles, dicts, messages, batch>>

\* json.dump(self._to_dict(), json_file) and the close of the file
SaveDump(w) ==
    /\ writers[w].pc = "dump"
    /\ \E data \in Written(file_path(w), JsonDump(to_dict(profiles[writers[w].slot]))) :
            fs' = [fs EXCEPT ![file_path(w)] = File(TRUE, data)]
    /\ writers' = [writers EXCEPT ![w] = [@ EXCEPT !.pc = "done"]]
    /\ last' = [op |-> "save_profile_step", writer |-> w]
    /\ UNCHANGED <<env, dirs, profiles, dicts, messages, batch>>

\* two callers, each with a profile of its own, save under names of their
\* choice while the other may be inside save_profile too
InitRace == InitWorld(StoreFaults)

NextRace ==
    \/ \E a \in ConstructorArgs({""}, {<<>>}, {EmptyDict}, BOOLEAN) :
            Len(profiles) < Cardinality(Writers) /\ Construct(a, FALSE)
    \/ \E w \in Writers, n \in ProfileNames : SaveBegin(w, n)
    \/ \E w \in Writers : SaveProbe(w)
    \/ \E w \in Writers : SaveOpen(w)
    \/ \E w \in Writers : SaveDump(w)

SpecRace == InitRace /\ [][NextRace]_vars

\* the callers whose save_profile returned without raising, and those that
\* have opened their file
Saved == {w \in Writers : writers[w].pc = "done" /\ writers[w].err = Ok}
Opened == {w \in Writers : writers[w].pc \in {"dump", "done"} /\ writers[w].err = Ok}

\* C15: the probe and the open of save_profile are separate steps and the
\* open does not ask for a new file: whenever a caller reaches the open, the
\* open succeeds and leaves the file at the path the caller's probe chose
\* empty, whether the file is new or another caller created it since the
\* probe (then that caller's file is truncated); so the files created are as
\* many as the distinct paths opened, which may be fewer than the saves (the
\* witness is the state where that happens).
C15_ProbeThenOpenOverwrites ==
    /\ [](Cardinality({w \in Opened : writers[w].created})
            = Cardinality({file_path(w) : w \in Opened}))
    /\ [][\A w \in Writers :
            (writers[w].pc = "open" /\ writers'[w].pc # "open") =>
                /\ writers'[w].pc = "dump"
                /\ writers'[w].err = Ok
                /\ file_path(w) \in DOMAIN fs'
                /\ fs'[file_path(w)].data = NoData
                /\ writers'[w].created = (file_path(w) \notin DOMAIN fs)]_vars

\* C15 witness: both callers saved different profiles under the same base
\* name, both chose the same path, one file was created for two completed
\* saves, and the file does not hold what one of the callers saved.
C15_Witness ==
    /\ Saved = Writers
    /\ writers["w1"].profile_name = writers["w2"].profile_name
    /\ file_path("w1") = file_path("w2")
    /\ Cardinality({w \in Saved : writers[w].created}) = 1
    /\ to_dict(profiles[1]) # to_dict(profiles[2])
    /\ \E w \in Writers :
            fs[file_path(w)].data # JsonDump(to_dict(profiles[writers[w].slot]))

(***************************************************************************)
(* generate.py: the replies of the backend, extract_json_content and the   *)
(* batch loop of the __main__ block (SpecBatch).                           *)
(***************************************************************************)
\* how many samples --size may ask for
MaxSize == 2

\* get_ollama_response returns None when the call raised
NoResponse == [kind |-> "none"]

\* a response: response['message']['content'] is the text the model wrote
Response(content) == [kind |-> "response", content |-> content]

\* JSON values json.loads can return: an object with its members, or a value
\* that is not an object (a non-empty array or string; null, false, 0, "", [])
Object(fields) == [kind |-> "object", fields |-> fields]
NonObject(kind) == [kind |-> kind, fields |-> EmptyDict]

\* bool(value)
Truthy(value) ==
    \/ value.kind = "object" /\ DOMAIN value.fields # {}
    \/ value.kind \in {"array", "string"}

\* the text of a reply to the response prompt: what stands before the JSON,
\* how the JSON is fenced ("json": ```json ... ```; "json_unclosed": ```json
\* with no closing fence; "plain": ``` ... ```; "none": no fence), and the
\* fenced text itself
Reply(before, fence, body) == [before |-> before, fence |-> fence, body |-> body]

\* lines 151-157: the text handed to json.loads
raw_content(content) ==
    IF content.fence \in {"json", "json_unclosed"}
    THEN content.body
    ELSE IF content.before = "" /\ content.fence = "none"
    THEN content.body
    ELSE Text("prose")

\* extract_json_content: the value returned (None is the falsy "null") and
\* whether json.loads returned
extract_json_content(response) ==
    IF response = NoResponse
    THEN [parsed |-> FALSE, output |-> NonObject("null")]
    ELSE LET raw == raw_content(response.content)
         IN  IF JsonValid(raw)
             THEN [parsed |-> TRUE, output |-> JsonLoad(raw)]
             ELSE [parsed |-> FALSE, output |-> NonObject("null")]

\* generate_user_query: the query, "" standing for the None it returns when
\* the call failed (both are falsy to its caller)
generate_user_query(response) ==
    IF response = NoResponse THEN "" ELSE response.content

\* generate_response: the output to use, or the falsy "null" for None
generate_response(response) ==
    LET extracted == extract_json_content(response)
    IN  IF response # NoResponse /\ Truthy(extracted.output)
        THEN extracted.output
        ELSE NonObject("null")

\* response['generated_user_query'] = user_query: item assignment on a value
\* that is not a dict raises TypeError
set_generated_user_query(response, user_query) ==
    IF response.kind = "object"
    THEN [err |-> Ok,
          value |-> Object(Update(response.fields,
                                  [k \in {"generated_user_query"} |-> user_query]))]
    ELSE [err |-> "TypeError", value |-> response]

\* the replies the backend may give: the call raised, or the model wrote text
QueryReplies == {NoResponse, Response(""), Response("q1"), Response("q2")}

JsonValues ==
    {Object([k \in {"command"} |-> "c"]),
     Object([k \in {"command", "generated_user_query"} |-> IF k = "command" THEN "c" ELSE "q0"]),
     Object(EmptyDict),
     NonObject("array"), NonObject("string"), NonObject("null")}

Bodies == {Text("prose")} \cup {JsonDump(v) : v \in JsonValues}

ResponseReplies ==
    {NoResponse}
    \cup {Response(Reply(b, f, body)) :
            b \in {"", "Sure:"}, f \in {"none", "json", "json_unclosed", "plain"}, body \in Bodies}

\* what an iteration did: the query it generated ("" if none), whether the
\* response call returned, whether json.loads returned, and whether what it
\* returned was a non-empty object
Iteration(query, responded, parsed, object) ==
    [query |-> query, responded |-> responded, parsed |-> parsed, object |-> object]

\* lines 233-234: the loop is about to start
InitBatch ==
    /\ env = WorldEnv(<<>>)
    /\ dirs = WorldDirs(<<>>)
    /\ fs = WorldFiles(<<>>)
    /\ profiles = <<>>
    /\ dicts = <<EmptyDict>>
    /\ messages = <<>>
    /\ last = [op |-> "none"]
    /\ writers = [w \in Writers |-> IdleWriter]
    /\ \E size \in 0..MaxSize :
            batch = [pc |-> "loop", size |-> size, i |-> 0, user_query |-> "",
                     dataset |-> <<>>, log |-> <<>>, appends |-> 0, file |-> <<>>]

\* the iteration is over without a sample (lines 238-239)
Skip(entry) ==
    [batch EXCEPT !.pc = "loop", !.i = @ + 1, !.log = Append(@, entry)]

\* lines 235, 200-203: generate_penetration_testing_data up to generate_response
GenerateUserQuery(response) ==
    /\ batch.pc = "loop"
    /\ batch.i < batch.size
    /\ LET user_query == generate_user_query(response)
       IN  batch' = IF user_query = ""
                    THEN Skip(Iteration("", FALSE, FALSE, FALSE))
                    ELSE [batch EXCEPT !.pc = "response", !.user_query = user_query]
    /\ UNCHANGED <<env, dirs, fs, profiles, dicts, messages, last, writers>>

\* lines 205-210 and 236-239: generate_response, the assignment of the query
\* and the append to the dataset
GenerateResponse(response) ==
    /\ batch.pc = "response"
    /\ LET extracted == extract_json_content(response)
           output == generate_response(response)
           entry == Iteration(batch.user_query, response # NoResponse, extracted.parsed,
                              extracted.parsed /\ extracted.output.kind = "object"
                                  /\ Truthy(extracted.output))
           data == set_generated_user_query(output, batch.user_query)
       IN  batch' = IF ~Truthy(output)
                    THEN Skip(entry)
                    ELSE IF data.err # Ok
                    THEN [batch EXCEPT !.pc = "crashed", !.log = Append(@, entry)]
                    ELSE [batch EXCEPT !.pc = "loop", !.i = @ + 1,
                                       !.log = Append(@, entry),
                                       !.dataset = Append(@, data.value)]
    /\ UNCHANGED <<env, dirs, fs, profiles, dicts, messages, last, writers>>

\* lines 241-244 and save_dataset_to_jsonl: one append of all records, which
\* writes nothing if the file cannot be opened (the exception is caught)
SaveDataset(opened) ==
    /\ batch.pc = "loop"
    /\ batch.i = batch.size
    /\ batch' = IF batch.dataset # <<>>
                THEN [batch EXCEPT
                        !.pc = "done",
                        !.appends = @ + 1,
                        !.file = IF opened
                                 THEN @ \o [k \in DOMAIN batch.dataset |-> JsonDump(batch.dataset[k])]
                                 ELSE @]
                ELSE [batch EXCEPT !.pc = "done"]
    /\ UNCHANGED <<env, dirs, fs, profiles, dicts, messages, last, writers>>

NextBatch ==
    \/ \E r \in QueryReplies : GenerateUserQuery(r)
    \/ \E r \in ResponseReplies : GenerateResponse(r)
    \/ \E opened \in BOOLEAN : SaveDataset(opened)

SpecBatch == InitBatch /\ [][NextBatch]_vars

\* the iterations in which query generation, response generation and JSON
\* parsing all succeeded
Succeeded(entry) == entry.query # "" /\ entry.responded /\ entry.parsed

\* C16 (as claimed): whatever the backend replies, the batch loop ends
\* having run all N iterations, the dataset holds exactly one record per
\* iteration in which query generation, response generation and JSON parsing
\* all succeeded, in iteration order, each with generated_user_query equal to
\* that iteration's query, and the JSONL append was made once if the dataset
\* is non-empty and not at all if it is empty.
C16_FailuresOnlySkipIteration ==
    batch.pc \in {"done", "crashed"} =>
        LET successes == SelectSeq(batch.log, Succeeded)
        IN  /\ batch.pc = "done"
            /\ Len(batch.log) = batch.size
            /\ Len(batch.dataset) = Len(successes)
            /\ \A k \in DOMAIN batch.dataset :
                    /\ k \in DOMAIN successes
                    /\ batch.dataset[k].fields["generated_user_query"] = successes[k].query
            /\ batch.appends = IF batch.dataset # <<>> THEN 1 ELSE 0

\* the same for runs in which every reply that parsed was a non-empty object
C16_WhenEveryParsedReplyIsAnObject ==
    (/\ batch.pc \in {"done", "crashed"}
     /\ \A k \in DOMAIN batch.log : batch.log[k].parsed => batch.log[k].object) =>
        LET successes == SelectSeq(batch.log, Succeeded)
        IN  /\ batch.pc = "done"
            /\ Len(batch.log) = batch.size
            /\ Len(batch.dataset) = Len(successes)
            /\ \A k \in DOMAIN batch.dataset :
                    batch.dataset[k].fields["generated_user_query"] = successes[k].query
            /\ batch.appends = IF batch.dataset # <<>> THEN 1 ELSE 0

(***************************************************************************)
(* Isolation of profile objects (SpecUse).                                 *)
(***************************************************************************)
\* set_optional_param has just been called on one profile; j is another
OtherProfile(j) ==
    /\ last'.op = "set_optional_param"
    /\ j \in DOMAIN profiles
    /\ j # last'.slot

\* C17 (as claimed): profile objects are isolated: for any two distinct
\* profiles, including two constructed without optional_hyper_parameters, a
\* set_optional_param call on one leaves the other's optional_hyper_parameters
\* and the result of its format_inference_params as they were.
C17_ProfilesIsolated ==
    [][\A j \in 1..MaxProfiles :
        OtherProfile(j) =>
            /\ dicts'[profiles'[j].optional_hyper_parameters]
                    = dicts[profiles[j].optional_hyper_parameters]
            /\ format_inference_params(profiles[j])' = format_inference_params(profiles[j])]_vars

\* the same for a profile that was constructed with optional_hyper_parameters
\* of its own
C17_IsolatedWithOwnHyperParameters ==
    [][\A j \in 1..MaxProfiles :
        (OtherProfile(j) /\ profiles[j].optional_hyper_parameters # DefaultDict) =>
            /\ dicts'[profiles'[j].optional_hyper_parameters]
                    = dicts[profiles[j].optional_hyper_parameters]
            /\ format_inference_params(profiles[j])' = format_inference_params(profiles[j])]_vars

====
